---- MODULE Spec2Model ----
(***************************************************************************)
(* Model of the syftbox-rag ingestion / retrieval pipeline.                 *)
(*                                                                         *)
(*   app1.py        Streamlit builder: load_document, build_rag_database    *)
(*   rag_system.py  RAGSystem.index_documents / RAGSystem.query (CLI core)  *)
(*   main.py        setup_rag, process_documents, query_ollama, query_rag   *)
(*   rag_service.py RAGService._load_rag_database / _handle_request         *)
(*   app2.py        Streamlit query UI                                      *)
(*                                                                         *)
(* One output path on disk is modelled: the directory, the Chroma           *)
(* collection persisted in it and the metadata.json sibling file.           *)
(***************************************************************************)
EXTENDS Integers, Sequences, FiniteSets, TLC

VARIABLES
    dir_exists,         \* os.path.exists(output_dir)
    collection,         \* Absent, or Present(id -> chunk metadata): the persisted collection
    metadata_json,      \* Absent, or Present(record): output_dir/metadata.json
    pc,                 \* position of build_rag_database: idle, doc, chunk, done, aborted
    documents,          \* the documents argument, as far as the for-loop has enumerated it
    i,                  \* enumerate index of the current document (0-based, as in the code)
    j,                  \* enumerate index of the current chunk (0-based)
    total_chunks,       \* local counter of build_rag_database
    document_metadata,  \* local dict source -> [chunks, pages]
    ret,                \* Absent, or Present(value returned by the last completed build)
    failed_at,          \* Absent, or Present(<<i, j>>): the chunk whose collection.add raised
    now,                \* wall clock: [sec, half], finer than the one-second format
    prev_created_at,    \* Absent, or Present(created_at of the metadata.json the build removed)
    main_pc,            \* main.py: idle, or processing (between setup_rag and the end of process_documents)
    processed,          \* main.py: the pdf files process_documents has iterated over in this run
    last_inserted,      \* main.py: the ids for which collection.add returned in the current / latest run
    downloaded_files,   \* app1 UI: st.session_state.downloaded_files, the files in the temp directory
    all_documents,      \* app1 UI: Absent, or Present(all_documents of the Build handler's last run)
    rag_dir,            \* Absent, or Present(the database directories of rag_databases/, in iterdir order)
    svc_pc,             \* RAGService.__init__: started (server thread runs, attributes not yet
                        \* assigned), assigned (collection = metadata = None), loaded
    svc_collection,     \* RAGService.collection: Absent, or Present(k): the collection of rag_dir[k]
    svc_metadata,       \* RAGService.metadata: Absent, or Present(k): the metadata.json of rag_dir[k]
    ui_collection,      \* app2: st.session_state.collection, Absent or Present(k)
    index,              \* RAGSystem.index: Absent, or Present("index") over the vector store
    response,           \* Absent, or Present([answer, sources, error]): what the last query returned
    splitter,           \* text_splitter.split_text in progress: its position and locals, and
                        \* the texts split so far with the chunks returned for them
    escaped,            \* Absent, or Present(message): the exception that left the last
                        \* request handler instead of a response
    cli,                \* rag_cli.main: its position and the parsed arguments
    auth,               \* RAGBuilder.authenticate with its callback server
    server,             \* SyftRPCClient: the background server thread and its stop event
    session,            \* app1 UI: st.session_state.selected_files and
                        \* st.session_state.downloaded_files (file id -> path), and what the
                        \* last press of "Build RAG Database" saw and loaded
    call                \* what the last query did: [frontend, n_results, queried, llm,
                        \* distances, ids, context]

diskVars  == <<dir_exists, collection, metadata_json>>
buildVars == <<pc, documents, i, j, total_chunks, document_metadata, ret, failed_at>>
clockVars == <<now, prev_created_at>>
mainVars  == <<main_pc, processed, last_inserted>>
queryVars == <<response, call>>
loadVars  == <<downloaded_files, all_documents>>
svcVars   == <<rag_dir, svc_pc, svc_collection, svc_metadata, ui_collection>>
procVars  == <<escaped, cli, auth, server, session>>
vars == <<diskVars, buildVars, clockVars, mainVars, queryVars, loadVars, svcVars, index,
          splitter, procVars>>

\* what the actions of app1.build_rag_database leave alone
notBuilder == <<mainVars, queryVars, loadVars, svcVars, index, splitter, procVars>>

----------------------------------------------------------------------------
(* Optional values (Python None / a missing file). *)
Absent == <<>>
Present(x) == <<x>>
Val(o) == o[1]

EmptyMap == [x \in {} |-> 0]

(* Bounds of the model. *)
MaxDocs == 2
MaxChunks == 2
MaxSec == 1
MaxFiles == 2
MaxPages == 2
MaxDist == 2
MaxK == 4
MaxWait == 3
MaxHandled == 3

----------------------------------------------------------------------------
(* Text.  A chunk is "t" (has non-whitespace characters) or "w" (whitespace  *)
(* only); a document's page_content is represented by the chunk sequence     *)
(* text_splitter.split_text returns for it.                                  *)

ChunkKinds == {"t", "w"}

ChunkLists == UNION {[1..n -> ChunkKinds] : n \in 0..MaxChunks}

\* chunk.strip() is falsy
Blank(chunk) == chunk = "w"

\* text_splitter.split_text(content)
split_text(content) == content

(* Sources are paths <<directory, basename>>; basenames are character        *)
(* sequences so that the id format can be modelled as concatenation.         *)
Sources == { <<"x", <<"a">> >>, <<"y", <<"a">> >> }

basename(source) == source[2]

Digits == <<"0", "1", "2", "3", "4", "5", "6", "7", "8", "9">>

RECURSIVE Str(_)
\* str(n) of a non-negative int, as the f-string formats it
Str(n) == IF n < 10 THEN <<Digits[n + 1]>>
          ELSE Str(n \div 10) \o <<Digits[(n % 10) + 1]>>

\* the id without the document index: f"{os.path.basename(source_file)}_{j}"
ChunkId_NoDocIndex(source_file, di, cj) ==
    basename(source_file) \o <<"_">> \o Str(cj)

\* f"{os.path.basename(source_file)}_{i}_{j}"
ChunkId(source_file, di, cj) ==
    basename(source_file) \o <<"_">> \o Str(di) \o <<"_">> \o Str(cj)

(* A document dict: page = 0 stands for "page" not in doc["metadata"].       *)
PagesOf(source) == IF source[1] = "x" THEN {1} ELSE {0}

Docs == { [source |-> s, page |-> p, page_content |-> c] :
             s \in Sources, p \in {0, 1}, c \in ChunkLists }

InputDocs == { d \in Docs : d.page \in PagesOf(d.source) }

----------------------------------------------------------------------------
(* Chroma collection.add(documents=[chunk], metadatas=[m], ids=[id]): an id  *)
(* that is already stored is left as it is.                                  *)
CollectionAdd(coll, id, entry) ==
    IF id \in DOMAIN coll THEN coll ELSE coll @@ (id :> entry)

\* time.strftime("%Y-%m-%d %H:%M:%S"): the clock reading cut to whole seconds
strftime(t) == t.sec

\* The clock advances by half a second.
Tick ==
    /\ now.sec < MaxSec
    /\ now' = IF now.half THEN [sec |-> now.sec + 1, half |-> FALSE]
                          ELSE [sec |-> now.sec, half |-> TRUE]
    /\ UNCHANGED <<diskVars, buildVars, prev_created_at, notBuilder>>

----------------------------------------------------------------------------
(* app1.build_rag_database                                                   *)

\* BuildStart without the rmtree of lines 175-177 reaching metadata.json
BuildStart_KeepsMetadata ==
    /\ pc \in {"idle", "done", "aborted"}
    /\ prev_created_at' = IF metadata_json = Absent THEN prev_created_at
                          ELSE Present(Val(metadata_json).created_at)
    /\ dir_exists' = TRUE
    /\ collection' = Present(EmptyMap)
    /\ metadata_json' = metadata_json
    /\ pc' = "doc"
    /\ documents' = <<>>
    /\ i' = 0
    /\ j' = 0
    /\ total_chunks' = 0
    /\ document_metadata' = EmptyMap
    /\ ret' = Absent
    /\ failed_at' = Absent
    /\ UNCHANGED <<now, notBuilder>>

\* lines 174-196: remove the old directory, recreate it, create the collection
BuildStart ==
    /\ pc \in {"idle", "done", "aborted"}
    /\ prev_created_at' = IF metadata_json = Absent THEN prev_created_at
                          ELSE Present(Val(metadata_json).created_at)
    /\ dir_exists' = TRUE
    /\ collection' = Present(EmptyMap)
    /\ metadata_json' = Absent
    /\ pc' = "doc"
    /\ documents' = <<>>
    /\ i' = 0
    /\ j' = 0
    /\ total_chunks' = 0
    /\ document_metadata' = EmptyMap
    /\ ret' = Absent
    /\ failed_at' = Absent
    /\ UNCHANGED <<now, notBuilder>>

\* TrackDocument without the `if source_file not in document_metadata` test
TrackDocument_Resets(dm, doc) ==
    LET source_file == doc.source
        dm1 == [s \in DOMAIN dm \cup {source_file} |->
                   IF s = source_file THEN [chunks |-> 0, pages |-> {}] ELSE dm[s]]
    IN  IF doc.page # 0
        THEN [dm1 EXCEPT ![source_file].pages = @ \cup {doc.page}]
        ELSE dm1

\* lines 204-213: register the source and its page
TrackDocument(dm, doc) ==
    LET source_file == doc.source
        dm1 == IF source_file \in DOMAIN dm THEN dm
               ELSE dm @@ (source_file :> [chunks |-> 0, pages |-> {}])
    IN  IF doc.page # 0
        THEN [dm1 EXCEPT ![source_file].pages = @ \cup {doc.page}]
        ELSE dm1

\* lines 199-216: the for-loop takes the next document and splits it
NextDocument(doc) ==
    /\ pc = "doc"
    /\ Len(documents) < MaxDocs
    /\ documents' = Append(documents, doc)
    /\ i' = Len(documents)
    /\ j' = 0
    /\ document_metadata' = TrackDocument(document_metadata, doc)
    /\ pc' = IF split_text(doc.page_content) = <<>> THEN "doc" ELSE "chunk"
    /\ UNCHANGED <<diskVars, total_chunks, ret, failed_at, clockVars, notBuilder>>

CurrentDoc == documents[i + 1]
CurrentChunk == split_text(CurrentDoc.page_content)[j + 1]

\* lines 224-232
ChunkMetadata(doc, di, cj) ==
    [source |-> doc.source, chunk_id |-> cj, document_id |-> di, page |-> doc.page]

\* line 242
CountChunk(n) == n + 1

\* AddChunk with the increment of line 242 moved out of the `if chunk.strip()` block
AddChunk_CountsBlank ==
    /\ pc = "chunk"
    /\ IF ~Blank(CurrentChunk)
       THEN /\ collection' = Present(CollectionAdd(Val(collection),
                                 ChunkId(CurrentDoc.source, i, j),
                                 ChunkMetadata(CurrentDoc, i, j)))
            /\ document_metadata' =
                  [document_metadata EXCEPT ![CurrentDoc.source].chunks = @ + 1]
       ELSE UNCHANGED <<collection, document_metadata>>
    /\ total_chunks' = CountChunk(total_chunks)
    /\ j' = j + 1
    /\ pc' = IF j + 1 < Len(split_text(CurrentDoc.page_content)) THEN "chunk" ELSE "doc"
    /\ UNCHANGED <<dir_exists, metadata_json, documents, i, ret, failed_at, clockVars, notBuilder>>

\* AddChunk without the `if chunk.strip()` test of line 220
AddChunk_InsertsBlank ==
    /\ pc = "chunk"
    /\ collection' = Present(CollectionAdd(Val(collection),
                          ChunkId(CurrentDoc.source, i, j),
                          ChunkMetadata(CurrentDoc, i, j)))
    /\ total_chunks' = CountChunk(total_chunks)
    /\ document_metadata' =
          [document_metadata EXCEPT ![CurrentDoc.source].chunks = @ + 1]
    /\ j' = j + 1
    /\ pc' = IF j + 1 < Len(split_text(CurrentDoc.page_content)) THEN "chunk" ELSE "doc"
    /\ UNCHANGED <<dir_exists, metadata_json, documents, i, ret, failed_at, clockVars, notBuilder>>

\* lines 219-243, one iteration of the inner loop in which collection.add returns
AddChunk ==
    /\ pc = "chunk"
    /\ IF ~Blank(CurrentChunk)
       THEN /\ collection' = Present(CollectionAdd(Val(collection),
                                 ChunkId(CurrentDoc.source, i, j),
                                 ChunkMetadata(CurrentDoc, i, j)))
            /\ total_chunks' = CountChunk(total_chunks)
            /\ document_metadata' =
                  [document_metadata EXCEPT ![CurrentDoc.source].chunks = @ + 1]
       ELSE UNCHANGED <<collection, total_chunks, document_metadata>>
    /\ j' = j + 1
    /\ pc' = IF j + 1 < Len(split_text(CurrentDoc.page_content)) THEN "chunk" ELSE "doc"
    /\ UNCHANGED <<dir_exists, metadata_json, documents, i, ret, failed_at, clockVars, notBuilder>>

\* lines 235-239 raise (embedding or insertion failed): nothing in
\* build_rag_database catches it, the call ends with the exception
AddChunkRaises ==
    /\ pc = "chunk"
    /\ ~Blank(CurrentChunk)
    /\ pc' = "aborted"
    /\ failed_at' = Present(<<i, j>>)
    /\ UNCHANGED <<diskVars, documents, i, j, total_chunks, document_metadata, ret, clockVars,
                   notBuilder>>

\* NewMetadata that keeps the created_at of the metadata.json it replaces
NewMetadata_KeepsCreatedAt ==
    [collection_name |-> "documents",
     document_count  |-> Len(documents),
     chunk_count     |-> total_chunks,
     documents       |-> document_metadata,
     created_at      |-> IF prev_created_at = Absent THEN strftime(now)
                         ELSE Val(prev_created_at)]

\* lines 250-257
NewMetadata ==
    [collection_name |-> "documents",
     document_count  |-> Len(documents),
     chunk_count     |-> total_chunks,
     documents       |-> document_metadata,
     created_at      |-> strftime(now)]

\* lines 245-264: the loop is over; write metadata.json and return
WriteMetadata ==
    /\ pc = "doc"
    /\ metadata_json' = Present(NewMetadata)
    /\ ret' = Present(total_chunks)
    /\ pc' = "done"
    /\ UNCHANGED <<dir_exists, collection, documents, i, j, total_chunks,
                   document_metadata, failed_at, clockVars, notBuilder>>

----------------------------------------------------------------------------
InitDisk ==
    /\ dir_exists = FALSE
    /\ collection = Absent
    /\ metadata_json = Absent

InitBuild ==
    /\ pc = "idle"
    /\ documents = <<>>
    /\ i = 0
    /\ j = 0
    /\ total_chunks = 0
    /\ document_metadata = EmptyMap
    /\ ret = Absent
    /\ failed_at = Absent

InitClock ==
    /\ now = [sec |-> 0, half |-> FALSE]
    /\ prev_created_at = Absent

InitMain ==
    /\ main_pc = "idle"
    /\ processed = {}
    /\ last_inserted = {}

NoCall ==
    [frontend |-> "none", n_results |-> 0, queried |-> FALSE, llm |-> "none",
     distances |-> <<>>, ids |-> <<>>, context |-> <<>>]

InitQuery ==
    /\ response = Absent
    /\ call = NoCall

InitLoad ==
    /\ downloaded_files = <<>>
    /\ all_documents = Absent

\* no service is running: rag_service.py before RAGService(), app2 before
\* "Load Database", rag_system.py lines 240-242
InitService ==
    /\ rag_dir = Absent
    /\ svc_pc = "started"
    /\ svc_collection = Absent
    /\ svc_metadata = Absent
    /\ ui_collection = Absent
    /\ index = Absent

\* no split_text call is running and none has returned
SplitterIdle ==
    [pc |-> "idle", text |-> <<>>, seps_left |-> <<>>, splits |-> <<>>, k |-> 0,
     good |-> <<>>, m_splits |-> <<>>, m_k |-> 0, m_a |-> 1, m_b |-> 0, m_total |-> 0,
     m_after |-> "none", chunks |-> <<>>, log |-> <<>>]

InitSplit == splitter = SplitterIdle

\* No request has been handled; rag_cli.main has not run; authenticate has
\* not been called; the stop event is clear and the server thread, started by
\* the constructor (syft_rpc_client.py lines 43-93), has created the box and
\* registered the handler; nothing is selected or downloaded (app1.py lines
\* 276-281) and "Build RAG Database" has not been pressed
InitProc ==
    /\ escaped = Absent
    /\ cli = [pc |-> "none", query |-> FALSE, force_reindex |-> FALSE, interactive |-> FALSE]
    /\ auth = [pc |-> "idle", timeout |-> 0, auth_code |-> Absent, server_closed |-> FALSE,
               elapsed |-> 0, httpd |-> "none", result |-> Absent]
    /\ server = [pc |-> "start", stop_event |-> FALSE, closed |-> FALSE, started |-> "none",
                 handled |-> 0, late |-> 0, stops |-> 0, logged |-> {}]
    /\ session = [selected_files |-> <<>>, downloaded_files |-> EmptyMap, build |-> Absent]

Init ==
    /\ InitDisk /\ InitBuild /\ InitClock /\ InitMain /\ InitQuery /\ InitLoad /\ InitService
    /\ InitSplit /\ InitProc

Next ==
    \/ BuildStart
    \/ \E doc \in InputDocs : NextDocument(doc)
    \/ AddChunk
    \/ AddChunkRaises
    \/ WriteMetadata

\* The builder UI: builds and rebuilds of one output path.
Spec == Init /\ [][Next]_vars

(* The same builder under a running clock.  The timestamp does not depend    *)
(* on the text, so the documents are one-chunk documents.                    *)
ClockDocs == { d \in InputDocs : d.page_content = <<"t">> }

NextClock ==
    \/ BuildStart
    \/ \E doc \in ClockDocs : NextDocument(doc)
    \/ AddChunk
    \/ AddChunkRaises
    \/ WriteMetadata
    \/ Tick

SpecClock == Init /\ [][NextClock]_vars

----------------------------------------------------------------------------
(* Properties of app1.build_rag_database                                     *)

StoredIds == IF collection = Absent THEN {} ELSE DOMAIN Val(collection)

\* C1 (as claimed, for build_rag_database): a build invoked on an output path
\* that already holds a collection writes nothing: the stored collection and
\* metadata.json are the same after the call has started as before.
C1_ReuseWritesNothing ==
    [][(pc = "done" /\ collection # Absent /\ pc' # "done")
         => (collection' = collection /\ metadata_json' = metadata_json)]_vars

\* C2: whenever metadata.json exists, its chunk_count is the number of ids in
\* the collection, and so is the value a completed build returned.
C2_ChunkCountIsStoredIds ==
    /\ metadata_json # Absent =>
          Val(metadata_json).chunk_count = Cardinality(StoredIds)
    /\ pc = "done" =>
          /\ metadata_json # Absent
          /\ ret = Present(Cardinality(StoredIds))

\* C2 witness: a completed build of two inserted chunks whose input also held
\* a whitespace-only chunk (the count differs from the input size).
C2_Witness ==
    /\ pc = "done"
    /\ Val(metadata_json).chunk_count = 2
    /\ \E d \in 1..Len(documents) :
          \E c \in 1..Len(documents[d].page_content) :
             documents[d].page_content[c] = "w"

\* C4 (as claimed): a completed rebuild writes a created_at different from the
\* one of the previous build at the path.
C4_CreatedAtDiffers ==
    (pc = "done" /\ prev_created_at # Absent)
       => Val(metadata_json).created_at # Val(prev_created_at)

\* C4 (amended): the step that completes a build writes created_at as the
\* clock reading of that moment in whole seconds, whatever the previous
\* metadata.json held, and chunk_count as the count of this build's stored ids.
C4_CreatedAtIsFinishTime ==
    [][(pc = "doc" /\ pc' = "done")
         => /\ metadata_json' # Absent
            /\ Val(metadata_json').created_at = now.sec
            /\ Val(metadata_json').chunk_count = Cardinality(StoredIds)]_vars

\* C4 witness: a rebuild completed in a later second than the build before it.
C4_Witness ==
    /\ pc = "done"
    /\ prev_created_at # Absent
    /\ Val(metadata_json).created_at > Val(prev_created_at)

\* C5 (as claimed): after collection.add raised for a chunk the build goes on
\* (and ends with metadata.json written); it is never left aborted.
C5_FailedChunkIsSkipped ==
    failed_at # Absent => pc \in {"chunk", "doc", "done"}

----------------------------------------------------------------------------
(* main.py: setup_rag, process_documents, query_ollama, query_rag            *)

\* main.py line 258: the slice width of range(0, len(text), 1000) and text[i:i+1000]
SliceSize == 1000

Repeat(ch, n) == [k \in 1..n |-> ch]

(* Texts extracted from a pdf: characters "c", "d" (not whitespace) and " ".  *)
SampleTexts ==
    { Repeat("c", 300),
      Repeat("c", 1500),
      Repeat("c", 900) \o Repeat("d", 600),
      Repeat("c", 1000) \o Repeat(" ", 200),
      Repeat(" ", 40) }

\* chunks = [text[i:i+1000] for i in range(0, len(text), 1000)]
Slices(text) ==
    [k \in 1..((Len(text) + SliceSize - 1) \div SliceSize) |->
        SubSeq(text, (k - 1) * SliceSize + 1,
               IF k * SliceSize < Len(text) THEN k * SliceSize ELSE Len(text))]

\* chunk.strip() is falsy: no character but whitespace
IsBlankText(chunk) == \A k \in 1..Len(chunk) : chunk[k] = " "

\* glob.glob("*.pdf")
PdfPaths == { <<"a">>, <<"b">> }

(* A pdf in the working directory.  readable: PdfReader and extract_text     *)
(* succeed; fail_at = k > 0: collection.add raises for chunk index k - 1.     *)
PdfFiles ==
    { f \in [path : PdfPaths, readable : BOOLEAN, text : SampleTexts, fail_at : 0..2] :
        /\ ~f.readable => (f.fail_at = 0 /\ f.text = Repeat("c", 300))
        /\ f.fail_at # 0 => /\ f.fail_at <= Len(Slices(f.text))
                            /\ ~IsBlankText(Slices(f.text)[f.fail_at]) }

\* the wording of the exception get_collection raises for a missing collection
\* differs between releases of the store
NotFoundWordings ==
    { "Collection [documents] does not exists", "Collection documents does not exist." }

\* f"{file_path}_{i}"
FileChunkId(file_path, ci) == file_path \o <<"_">> \o Str(ci)

\* lines 217-241 (and main(), lines 372-380, which returns when setup_rag raises)
SetupRag(msg) ==
    /\ main_pc = "idle"
    /\ dir_exists' = TRUE
    /\ IF collection # Absent
       THEN collection' = collection /\ main_pc' = "processing"
       ELSE IF msg = "Collection [documents] does not exists"
            THEN collection' = Present(EmptyMap) /\ main_pc' = "processing"
            ELSE collection' = collection /\ main_pc' = "idle"
    /\ processed' = {}
    /\ last_inserted' = {}
    /\ UNCHANGED <<metadata_json, buildVars, clockVars, queryVars, loadVars, svcVars, index, splitter, procVars>>

\* the chunk indexes (1-based) of a file for which collection.add is called and returns
AddedChunks(file) ==
    IF ~file.readable THEN {}
    ELSE { k \in 1..Len(Slices(file.text)) :
             /\ ~IsBlankText(Slices(file.text)[k])
             /\ (file.fail_at = 0 \/ k < file.fail_at) }

\* lines 247-271: one iteration of the loop over pdf_files, with its try/except
ProcessFile(file) ==
    /\ main_pc = "processing"
    /\ file.path \notin processed
    /\ processed' = processed \cup {file.path}
    /\ LET new == [id \in { FileChunkId(file.path, k - 1) : k \in AddedChunks(file) } |->
                      LET k == CHOOSE n \in AddedChunks(file) :
                                  FileChunkId(file.path, n - 1) = id
                      IN  [source |-> file.path, chunk |-> k - 1,
                           document |-> Slices(file.text)[k]]]
       IN  /\ collection' = Present(Val(collection) @@ new)
           /\ last_inserted' = last_inserted \cup DOMAIN new
    /\ UNCHANGED <<dir_exists, metadata_json, main_pc, buildVars, clockVars, queryVars, loadVars,
                   svcVars, index, splitter, procVars>>

\* line 273: the loop over pdf_files is over
FinishProcess ==
    /\ main_pc = "processing"
    /\ main_pc' = "idle"
    /\ UNCHANGED <<diskVars, processed, last_inserted, buildVars, clockVars, queryVars, loadVars,
                   svcVars, index, splitter, procVars>>

\* the response has been handed to the caller, or the exception has left the
\* handler, and the front end waits for the next request (syft_rpc_client.py
\* lines 88-90 and the loop of lines 104-107)
Deliver ==
    /\ (response # Absent \/ escaped # Absent)
    /\ response' = Absent
    /\ escaped' = Absent
    /\ call' = NoCall
    /\ UNCHANGED <<diskVars, buildVars, clockVars, mainVars, loadVars, svcVars, index, splitter,
                   cli, auth, server, session>>

GeneratedText == "text generated by the model"
Apology == "I'm sorry, I encountered an error while processing your question. Please try again."

\* lines 275-321: query_rag with query_ollama; store and llm are the outcomes of
\* collection.query and of the HTTP call to Ollama
QueryRag(store, llm) ==
    /\ response = Absent
    /\ main_pc = "idle"
    /\ collection # Absent
    /\ response' = Present([answer  |-> IF store = "ok" /\ llm = "ok"
                                        THEN GeneratedText ELSE Apology,
                            sources |-> <<>>,
                            error   |-> Absent])
    /\ call' = [frontend |-> "main", n_results |-> 3, queried |-> TRUE,
                llm |-> IF store = "ok" THEN llm ELSE "none", distances |-> <<>>,
                        ids |-> <<>>, context |-> <<>>]
    /\ UNCHANGED <<diskVars, buildVars, clockVars, mainVars, loadVars, svcVars, index, splitter, procVars>>

NextMain ==
    \/ \E msg \in NotFoundWordings : SetupRag(msg)
    \/ \E file \in PdfFiles : ProcessFile(file)
    \/ FinishProcess
    \/ \E store \in {"ok", "raises"}, llm \in {"ok", "failed"} : QueryRag(store, llm)
    \/ Deliver

\* The command-line builder of main.py, run again and again on its database path.
SpecMain == Init /\ [][NextMain]_vars

\* C3 (as claimed): after any sequence of builds of one path the collection
\* holds exactly the ids inserted by the most recent build.
C3_OnlyLatestBuildIds ==
    (main_pc = "idle" /\ collection # Absent) => StoredIds = last_inserted

\* C8 (as claimed): when generation failed, the result has an error and an
\* empty answer.
C8_GenerationFailureSurfaced ==
    (response # Absent /\ call.llm = "failed")
       => (Val(response).error # Absent /\ Val(response).answer = "")

----------------------------------------------------------------------------
(* app1.py: load_document and the loading part of the Build handler          *)

\* the paths download_file writes: temp_dir joined with the file name
TempPaths == { <<"tmp", <<"a">> >>, <<"tmp", <<"b">> >> }

PageTexts == UNION {[1..n -> ChunkKinds] : n \in 0..MaxPages}

(* A downloaded file.  pages: the text of each pdf page, or the one text of   *)
(* a docx / txt / md / html file ("t": has non-whitespace characters, "w":    *)
(* whitespace only).  bad = k > 0: reading raises at page k (for a pdf,       *)
(* PdfReader or extract_text of page k; for the others, loader.load()).       *)
TempFiles ==
    { f \in [path : TempPaths, ext : {"pdf", "txt", "other"}, pages : PageTexts,
             bad : 0..MaxPages] :
        /\ f.ext = "pdf" => f.bad <= Len(f.pages)
        /\ f.ext = "txt" => (Len(f.pages) = 1 /\ f.bad <= 1)
        /\ f.ext = "other" => (f.pages = <<>> /\ f.bad = 0) }

RECURSIVE PdfDocuments(_, _, _)
\* lines 126-142: the pages 1..upto of a pdf, in order, without the blank ones
PdfDocuments(file, k, upto) ==
    IF k > upto THEN <<>>
    ELSE (IF Blank(file.pages[k]) THEN <<>>
          ELSE << [source |-> file.path, page |-> k, page_content |-> file.pages[k]] >>)
         \o PdfDocuments(file, k + 1, upto)

\* lines 119-170
load_document(file) ==
    IF file.ext = "pdf"
    THEN PdfDocuments(file, 1, IF file.bad = 0 THEN Len(file.pages) ELSE file.bad - 1)
    ELSE IF file.ext = "txt"
    THEN (IF file.bad = 0
          THEN << [source |-> file.path, page |-> 0, page_content |-> file.pages[1]] >>
          ELSE <<>>)
    ELSE <<>>

\* lines 384-392: a selected file is downloaded into the temp directory
Download(file) ==
    /\ Len(downloaded_files) < MaxFiles
    /\ \A k \in 1..Len(downloaded_files) : downloaded_files[k].path # file.path
    /\ downloaded_files' = Append(downloaded_files, file)
    /\ all_documents' = Absent
    /\ UNCHANGED <<diskVars, buildVars, clockVars, mainVars, queryVars, svcVars, index, splitter, procVars>>

RECURSIVE LoadAll(_, _)
\* lines 395-399
LoadAll(files, k) ==
    IF k > Len(files) THEN <<>>
    ELSE load_document(files[k]) \o LoadAll(files, k + 1)

\* lines 394-399 of the Build handler
LoadDocuments ==
    /\ downloaded_files # <<>>
    /\ all_documents = Absent
    /\ all_documents' = Present(LoadAll(downloaded_files, 1))
    /\ UNCHANGED <<downloaded_files, diskVars, buildVars, clockVars, mainVars, queryVars,
                   svcVars, index, splitter, procVars>>

NextLoad ==
    \/ \E file \in TempFiles : Download(file)
    \/ LoadDocuments

\* The builder UI up to the point where the documents are handed to the build.
SpecLoad == Init /\ [][NextLoad]_vars

\* reading the file raises somewhere
FailsToLoad(file) == file.bad # 0

\* C6 (as claimed): a file whose reading fails is skipped (none of its pages
\* becomes a document) and every non-blank page of every other file is loaded.
C6_FailedFileSkippedOthersLoaded ==
    all_documents # Absent =>
       \A f \in 1..Len(downloaded_files) :
          LET file == downloaded_files[f]
              docs == Val(all_documents)
          IN  IF FailsToLoad(file)
              THEN \A d \in 1..Len(docs) : docs[d].source # file.path
              ELSE file.ext # "other" =>
                     \A k \in 1..Len(file.pages) :
                        (file.ext = "pdf" => ~Blank(file.pages[k])) =>
                           \E d \in 1..Len(docs) :
                              /\ docs[d].source = file.path
                              /\ docs[d].page = (IF file.ext = "pdf" THEN k ELSE 0)

----------------------------------------------------------------------------
(* Query side: rag_service.py, app2.py, rag_system.py                        *)

DocA == [source |-> <<"x", <<"a">> >>, page |-> 1, page_content |-> <<"t", "t">>]
DocB == [source |-> <<"y", <<"a">> >>, page |-> 0, page_content |-> <<"t">>]

\* document lists the sample databases were built from
SampleDocLists == { <<>>, <<DocA>>, <<DocA, DocB>> }

RECURSIVE BuiltCollection(_, _, _, _)
\* the collection app1.build_rag_database leaves when no add raises: the loop
\* of lines 199-243 from document d, chunk c (1-based) on
BuiltCollection(coll, docs, d, c) ==
    IF d > Len(docs) THEN coll
    ELSE IF c > Len(split_text(docs[d].page_content))
         THEN BuiltCollection(coll, docs, d + 1, 1)
         ELSE BuiltCollection(
                 IF Blank(split_text(docs[d].page_content)[c]) THEN coll
                 ELSE CollectionAdd(coll, ChunkId(docs[d].source, d - 1, c - 1),
                                    ChunkMetadata(docs[d], d - 1, c - 1)),
                 docs, d, c + 1)

(* A directory under rag_databases/.  nometa: no metadata.json; badjson:      *)
(* json.load raises; noopen: metadata.json loads, get_collection raises;      *)
(* good: both load.                                                           *)
Db(kind, docs) == [kind |-> kind, docs |-> docs]

(* The listings of rag_databases/ the front ends are started on: the         *)
(* directory is missing, is empty, holds databases that do not load, or      *)
(* holds loadable databases behind ones that do not load.                    *)
RagDirs ==
    { Absent,
      Present(<<>>),
      Present(<< Db("noopen", <<>>) >>),
      Present(<< Db("nometa", <<>>), Db("badjson", <<>>) >>),
      Present(<< Db("good", <<DocA, DocB>>) >>),
      Present(<< Db("nometa", <<>>), Db("good", <<DocA>>), Db("good", <<DocA, DocB>>) >>),
      Present(<< Db("noopen", <<>>), Db("good", <<>>), Db("good", <<DocA, DocB>>) >>) }

\* the positions of the entries of rag_databases/
DbIndexes == IF rag_dir = Absent THEN {} ELSE 1..Len(Val(rag_dir))

\* the stored chunks of database k of rag_dir
DbChunks(k) == BuiltCollection(EmptyMap, Val(rag_dir)[k].docs, 1, 1)

RECURSIVE LoadFrom(_, _, _)
\* rag_service.py lines 114-132: the loop over rag_dir.iterdir() from entry k on,
\* with the metadata assigned so far
LoadFrom(dirs, k, md) ==
    IF k > Len(dirs) THEN [metadata |-> md, collection |-> Absent]
    ELSE IF dirs[k].kind \in {"nometa", "badjson"} THEN LoadFrom(dirs, k + 1, md)
    ELSE IF dirs[k].kind = "noopen" THEN LoadFrom(dirs, k + 1, Present(k))
    ELSE [metadata |-> Present(k), collection |-> Present(k)]

\* rag_service.py lines 84-89: the attributes are assigned after the base class
\* constructor has started the server thread
AssignNone ==
    /\ svc_pc = "started"
    /\ svc_pc' = "assigned"
    /\ svc_collection' = Absent
    /\ svc_metadata' = Absent
    /\ UNCHANGED <<rag_dir, ui_collection, index, diskVars, buildVars, clockVars, mainVars,
                   queryVars, loadVars, splitter, procVars>>

\* rag_service.py lines 90, 107-132
LoadRagDatabase ==
    /\ svc_pc = "assigned"
    /\ svc_pc' = "loaded"
    /\ IF rag_dir = Absent
       THEN UNCHANGED <<svc_metadata, svc_collection>>
       ELSE LET r == LoadFrom(Val(rag_dir), 1, svc_metadata)
            IN  /\ svc_metadata' = r.metadata
                /\ svc_collection' = r.collection
    /\ UNCHANGED <<rag_dir, ui_collection, index, diskVars, buildVars, clockVars, mainVars,
                   queryVars, loadVars, splitter, procVars>>

\* app2.py lines 25-63, 109-126: "Load Database" for the selected directory
UiLoad(k) ==
    /\ response = Absent
    /\ k \in DbIndexes
    /\ Val(rag_dir)[k].kind # "nometa"
    /\ ui_collection' = IF Val(rag_dir)[k].kind = "good" THEN Present(k) ELSE ui_collection
    /\ UNCHANGED <<rag_dir, svc_pc, svc_collection, svc_metadata, index, diskVars, buildVars,
                   clockVars, mainVars, queryVars, loadVars, splitter, procVars>>

Range(f) == { f[x] : x \in DOMAIN f }

Min2(a, b) == IF a < b THEN a ELSE b

\* StoreQuery without the clamp of n_results: every stored chunk is returned
StoreQuery_Unclamped(coll, k) ==
    LET n == Cardinality(DOMAIN coll)
    IN  { [ids |-> ids, distances |-> ds] :
            ids \in { q \in [1..n -> DOMAIN coll] :
                        \A a, b \in 1..n : a # b => q[a] # q[b] },
            ds \in { d \in [1..n -> 0..MaxDist] :
                        \A a, b \in 1..n : a < b => d[a] <= d[b] } }

(* collection.query(query_texts=[q], n_results=k): the possible results for   *)
(* a collection, nearest first: min(k, count) distinct ids with their         *)
(* distances in ascending order.                                              *)
StoreQuery(coll, k) ==
    LET n == Min2(k, Cardinality(DOMAIN coll))
    IN  { [ids |-> ids, distances |-> ds] :
            ids \in { q \in [1..n -> DOMAIN coll] :
                        \A a, b \in 1..n : a # b => q[a] # q[b] },
            ds \in { d \in [1..n -> 0..MaxDist] :
                        \A a, b \in 1..n : a < b => d[a] <= d[b] } }

\* max(distances)
MaxOf(ds) == CHOOSE m \in Range(ds) : \A d \in Range(ds) : d <= m

\* a rational number num / den
Ratio(n, d) == [num |-> n, den |-> d]

\* "1 - (d / max) if max > 0 else 1" parsed as 1 - ((d / max) if max > 0 else 1)
Relevance_WrongPrecedence(distances, k) ==
    IF MaxOf(distances) > 0
    THEN Ratio(MaxOf(distances) - distances[k], MaxOf(distances))
    ELSE Ratio(0, 1)

\* the relevance without the "1 -"
Relevance_Uncomplemented(distances, k) ==
    IF MaxOf(distances) > 0
    THEN Ratio(distances[k], MaxOf(distances))
    ELSE Ratio(1, 1)

\* rag_service.py line 226: 1 - (distances[i] / max(distances)) if max(distances) > 0 else 1
Relevance(distances, k) ==
    IF MaxOf(distances) > 0
    THEN Ratio(MaxOf(distances) - distances[k], MaxOf(distances))
    ELSE Ratio(1, 1)

\* app2.py line 167, the same expression
UiRelevance(distances, k) ==
    IF MaxOf(distances) > 0
    THEN Ratio(MaxOf(distances) - distances[k], MaxOf(distances))
    ELSE Ratio(1, 1)

\* rag_service.py line 194 (app2.py line 150): the context block, one entry
\* f"Document {i+1}:\n{doc}" per returned document in enumerate order; the
\* text of a document is identified by the id of its chunk
Context(ids) ==
    [n \in 1..Len(ids) |-> [label |-> <<"Document ">> \o Str(n), doc |-> ids[n]]]

\* ServiceSources listing the sources last result first
ServiceSources_Reversed(coll, result) ==
    [k \in 1..Len(result.ids) |->
        LET n == Len(result.ids) + 1 - k
        IN  [content   |-> "t",
             metadata  |-> coll[result.ids[n]],
             id        |-> result.ids[n],
             relevance |-> IF result.distances # <<>>
                           THEN Present(Relevance(result.distances, n))
                           ELSE Absent]]

\* rag_service.py lines 217-228
ServiceSources(coll, result) ==
    [k \in 1..Len(result.ids) |->
        [content   |-> "t",
         metadata  |-> coll[result.ids[k]],
         id        |-> result.ids[k],
         relevance |-> IF result.distances # <<>>
                       THEN Present(Relevance(result.distances, k))
                       ELSE Absent]]

\* f"{relevance:.2f}": the value rounded to hundredths, as a count of hundredths
Hundredths(r) == (200 * r.num + r.den) \div (2 * r.den)

\* app2.py lines 161-173; shown is the relevance as the expander label prints it
UiSources(coll, result) ==
    [k \in 1..Len(result.ids) |->
        [content   |-> "t",
         metadata  |-> coll[result.ids[k]],
         id        |-> result.ids[k],
         relevance |-> IF result.distances # <<>>
                       THEN Present(UiRelevance(result.distances, k))
                       ELSE Absent,
         shown     |-> IF result.distances # <<>>
                       THEN Present(Hundredths(UiRelevance(result.distances, k)))
                       ELSE Absent]]

NotLoadedError == "No RAG database loaded"
AttributeError == "'RAGService' object has no attribute 'collection'"
NoIndexError == "No index available. Please index documents first."
StoreError == "exception raised by collection.query"
GenerationError == "exception raised by the generation call"

ErrorResponse(msg) == [answer |-> "", sources |-> <<>>, error |-> Present(msg)]

\* _handle_request returning an empty answer without an error when nothing is loaded
HandleRequest_EmptyAnswer(k, llm) ==
    /\ response = Absent
    /\ svc_pc # "started"
    /\ svc_collection = Absent
    /\ response' = Present([answer |-> "", sources |-> <<>>, error |-> Absent])
    /\ call' = [frontend |-> "service", n_results |-> k, queried |-> FALSE, llm |-> "none", distances |-> <<>>,
                        ids |-> <<>>, context |-> <<>>]
    /\ UNCHANGED <<svcVars, index, diskVars, buildVars, clockVars, mainVars, loadVars, splitter, procVars>>

\* _handle_request retrying _load_rag_database when nothing is loaded, before
\* it answers with the not-loaded error
HandleRequest_Reloads(k, llm) ==
    /\ response = Absent
    /\ svc_pc # "started"
    /\ svc_collection = Absent
    /\ response' = Present(ErrorResponse(NotLoadedError))
    /\ call' = [frontend |-> "service", n_results |-> k, queried |-> FALSE, llm |-> "none",
                distances |-> <<>>, ids |-> <<>>, context |-> <<>>]
    /\ IF rag_dir = Absent
       THEN UNCHANGED <<svc_metadata, svc_collection>>
       ELSE LET r == LoadFrom(Val(rag_dir), 1, svc_metadata)
            IN  /\ svc_metadata' = r.metadata
                /\ svc_collection' = r.collection
    /\ UNCHANGED <<rag_dir, svc_pc, ui_collection, index, diskVars, buildVars, clockVars,
                   mainVars, loadVars, splitter, procVars>>

\* rag_service.py lines 168-243: k is request.n_results, llm the outcome of the
\* generation call
HandleRequest(k, llm) ==
    /\ response = Absent
    /\ IF svc_pc = "started"
       THEN /\ response' = Present(ErrorResponse(AttributeError))
            /\ call' = [frontend |-> "service", n_results |-> k, queried |-> FALSE, llm |-> "none",
                        distances |-> <<>>,
                        ids |-> <<>>, context |-> <<>>]
       ELSE IF svc_collection = Absent
       THEN /\ response' = Present(ErrorResponse(NotLoadedError))
            /\ call' = [frontend |-> "service", n_results |-> k, queried |-> FALSE, llm |-> "none",
                        distances |-> <<>>,
                        ids |-> <<>>, context |-> <<>>]
       ELSE IF k < 1
       THEN /\ response' = Present(ErrorResponse(StoreError))
            /\ call' = [frontend |-> "service", n_results |-> k, queried |-> TRUE, llm |-> "none",
                        distances |-> <<>>,
                        ids |-> <<>>, context |-> <<>>]
       ELSE \E result \in StoreQuery(DbChunks(Val(svc_collection)), k) :
            /\ response' = Present(
                  IF llm = "ok"
                  THEN [answer  |-> GeneratedText,
                        sources |-> ServiceSources(DbChunks(Val(svc_collection)), result),
                        error   |-> Absent]
                  ELSE ErrorResponse(GenerationError))
            /\ call' = [frontend |-> "service", n_results |-> k, queried |-> TRUE, llm |-> llm,
                        distances |-> result.distances,
                        ids |-> result.ids, context |-> Context(result.ids)]
    /\ UNCHANGED <<svcVars, index, diskVars, buildVars, clockVars, mainVars, loadVars, splitter, procVars>>

\* str(e) of the AttributeError raised by request.model on a dict
DictAttributeError == "'dict' object has no attribute 'model'"

\* the payloads of /query: one RAGQueryRequest(**payload) accepts, and one it
\* rejects (a required field is missing)
Payloads == {"request", "malformed"}

\* syft_rpc_client.py lines 76-90 over rag_service.py lines 168-243: the
\* conversion failure is logged and the dict itself is handed to
\* _handle_request, whose first statement (line 170, before the try) reads
\* request.model
RequestHandler(payload, k, llm) ==
    IF payload = "request"
    THEN HandleRequest(k, llm)
    ELSE /\ response = Absent
         /\ escaped = Absent
         /\ escaped' = Present(DictAttributeError)
         /\ response' = Absent
         /\ call' = [frontend |-> "service", n_results |-> 0, queried |-> FALSE, llm |-> "none",
                     distances |-> <<>>,
                     ids |-> <<>>, context |-> <<>>]
         /\ UNCHANGED <<svcVars, index, diskVars, buildVars, clockVars, mainVars, loadVars,
                        splitter, cli, auth, server, session>>

\* app2.py lines 131-177: "Ask" with n_results = k (the slider allows 1..10)
UiAsk(k, llm) ==
    /\ response = Absent
    /\ ui_collection # Absent
    /\ k >= 1
    /\ \E result \in StoreQuery(DbChunks(Val(ui_collection)), k) :
            /\ response' = Present(
                  IF llm = "ok"
                  THEN [answer  |-> GeneratedText,
                        sources |-> UiSources(DbChunks(Val(ui_collection)), result),
                        error   |-> Absent]
                  ELSE ErrorResponse(GenerationError))
            /\ call' = [frontend |-> "app2", n_results |-> k, queried |-> TRUE, llm |-> llm,
                        distances |-> result.distances,
                        ids |-> result.ids, context |-> Context(result.ids)]
    /\ UNCHANGED <<svcVars, index, diskVars, buildVars, clockVars, mainVars, loadVars, splitter, procVars>>

RECURSIVE NodesOf(_, _, _, _)
\* the nodes VectorStoreIndex.from_documents inserts: one per non-blank chunk
NodesOf(coll, docs, d, c) ==
    IF d > Len(docs) THEN coll
    ELSE IF c > Len(docs[d].page_content) THEN NodesOf(coll, docs, d + 1, 1)
         ELSE NodesOf(IF Blank(docs[d].page_content[c]) THEN coll
                      ELSE coll @@ (<<"node", d, c>> :> [source |-> docs[d].source]),
                      docs, d, c + 1)

\* rag_system.py lines 255-299; embed is the outcome of from_documents
IndexDocumentsCall(docs, force_reindex, embed) ==
    /\ IF dir_exists /\ ~force_reindex
       THEN /\ collection' = IF collection = Absent THEN Present(EmptyMap) ELSE collection
            /\ index' = Present("index")
            /\ ret' = Present(Cardinality(DOMAIN Val(collection')))
            /\ metadata_json' = metadata_json
       ELSE IF embed = "ok"
       THEN /\ collection' = Present(NodesOf(EmptyMap, docs, 1, 1))
            /\ index' = Present("index")
            /\ ret' = Present(Cardinality(DOMAIN Val(collection')))
            /\ metadata_json' = Absent
       ELSE /\ collection' = Present(EmptyMap)
            /\ index' = index
            /\ ret' = Absent
            /\ metadata_json' = Absent
    /\ dir_exists' = TRUE
    /\ UNCHANGED <<pc, documents, i, j, total_chunks, document_metadata,
                   failed_at, clockVars, mainVars, queryVars, loadVars, svcVars, splitter>>

\* index_documents called on a RAGSystem outside a run of rag_cli.main
IndexDocuments(docs, force_reindex, embed) ==
    /\ response = Absent
    /\ IndexDocumentsCall(docs, force_reindex, embed)
    /\ UNCHANGED procVars

\* retriever.retrieve(query_text) with similarity_top_k = k: the possible node
\* lists, min(k, count) distinct nodes
Retrieve(coll, k) ==
    LET n == Min2(k, Cardinality(DOMAIN coll))
    IN  { q \in [1..n -> DOMAIN coll] : \A a, b \in 1..n : a # b => q[a] # q[b] }

RECURSIVE Dedupe(_, _)
\* rag_system.py lines 319-324: the sources of the nodes, each once, in order
Dedupe(seen, rest) ==
    IF rest = <<>> THEN seen
    ELSE Dedupe(IF Head(rest) \in Range(seen) THEN seen ELSE Append(seen, Head(rest)),
                Tail(rest))

\* rag_system.py lines 301-350
RagSystemQueryCall(k, llm) ==
    /\ response = Absent
    /\ k >= 1
    /\ IF index = Absent
       THEN /\ response' = Present(ErrorResponse(NoIndexError))
            /\ call' = [frontend |-> "cli", n_results |-> k, queried |-> FALSE, llm |-> "none",
                        distances |-> <<>>,
                        ids |-> <<>>, context |-> <<>>]
       ELSE \E nodes \in Retrieve(Val(collection), k) :
            /\ response' = Present(
                  IF llm = "ok"
                  THEN [answer  |-> GeneratedText,
                        sources |-> Dedupe(<<>>, [n \in 1..Len(nodes) |->
                                                     Val(collection)[nodes[n]].source]),
                        error   |-> Absent]
                  ELSE ErrorResponse(GenerationError))
            /\ call' = [frontend |-> "cli", n_results |-> k, queried |-> TRUE, llm |-> llm,
                        distances |-> <<>>,
                        ids |-> nodes, context |-> <<>>]
    /\ UNCHANGED <<svcVars, index, diskVars, buildVars, clockVars, mainVars, loadVars, splitter>>

\* query called on a RAGSystem outside a run of rag_cli.main
RagSystemQuery(k, llm) ==
    /\ RagSystemQueryCall(k, llm)
    /\ UNCHANGED procVars

\* rag_service.py lines 76-82 with syft_rpc_client.py lines 53-54: the base
\* class constructor has started the server thread; rag_databases/ is as the
\* builder left it; the vector store path of the RAGSystem (--vector-store) is
\* missing, or is a directory that holds no collection
InitServing ==
    /\ dir_exists \in BOOLEAN
    /\ collection = Absent
    /\ metadata_json = Absent
    /\ InitBuild /\ InitClock /\ InitMain /\ InitQuery /\ InitLoad /\ InitSplit /\ InitProc
    /\ rag_dir \in RagDirs
    /\ svc_pc = "started"
    /\ svc_collection = Absent
    /\ svc_metadata = Absent
    /\ ui_collection = Absent
    /\ index = Absent

NextQuery ==
    \/ AssignNone
    \/ LoadRagDatabase
    \/ \E k \in DbIndexes : UiLoad(k)
    \/ \E payload \in Payloads, k \in 0..MaxK, llm \in {"ok", "failed"} :
          RequestHandler(payload, k, llm)
    \/ \E k \in 0..MaxK, llm \in {"ok", "failed"} : UiAsk(k, llm)
    \/ \E docs \in SampleDocLists, force \in BOOLEAN, embed \in {"ok", "raises"} :
          IndexDocuments(docs, force, embed)
    \/ \E k \in 0..MaxK, llm \in {"ok", "failed"} : RagSystemQuery(k, llm)
    \/ Deliver

\* The query front ends over the databases found under rag_databases/ and the
\* command-line RAGSystem over its vector store.
SpecQuery == InitServing /\ [][NextQuery]_vars

\* the errors of a front end that has nothing loaded
NotInitializedErrors == {NotLoadedError, AttributeError, NoIndexError}

\* C7: a response to a request handled while the service has no collection
\* (or the RAGSystem no index) is an error response with one of the
\* not-initialized errors, an empty answer and no sources; the store was not
\* queried and the generation call was not made; and no response of a request
\* that reached the store carries one of these errors.
C7_NotLoadedFailsAtOnce ==
    response # Absent =>
       /\ ( \/ call.frontend = "service" /\ (svc_pc = "started" \/ svc_collection = Absent)
            \/ call.frontend = "cli" /\ index = Absent )
          => /\ Val(response).error # Absent
             /\ Val(Val(response).error) \in NotInitializedErrors
             /\ Val(response).answer = ""
             /\ Val(response).sources = <<>>
             /\ ~call.queried
             /\ call.llm = "none"
       /\ call.queried =>
             \/ Val(response).error = Absent
             \/ Val(Val(response).error) \notin NotInitializedErrors

\* C7 witness: the service constructed over a directory whose only database
\* cannot be opened has answered a request with the not-loaded error.
C7_Witness ==
    /\ svc_pc = "loaded"
    /\ rag_dir # Absent
    /\ Len(Val(rag_dir)) > 0
    /\ svc_collection = Absent
    /\ call.frontend = "service"
    /\ response = Present(ErrorResponse(NotLoadedError))

\* C9: in every successful response of the service and of the query UI each
\* source carries a relevance r with r = 1 - d / max(d) (as an equation between
\* fractions) when some distance is positive, and r = 1 when none is.
C9_RelevanceFormula ==
    (response # Absent /\ call.frontend \in {"service", "app2"}
        /\ Val(response).error = Absent)
    => LET src == Val(response).sources
           ds  == call.distances
       IN  /\ Len(src) = Len(ds)
           /\ \A n \in 1..Len(src) :
                 /\ src[n].relevance # Absent
                 /\ LET r == Val(src[n].relevance)
                    IN  /\ r.den > 0
                        /\ IF \E m \in 1..Len(ds) : ds[m] > 0
                           THEN \E m \in 1..Len(ds) :
                                   /\ \A q \in 1..Len(ds) : ds[q] <= ds[m]
                                   /\ r.num * ds[m] = (ds[m] - ds[n]) * r.den
                           ELSE r.num = r.den

\* C9 witness: a response with three sources at distances 0 < d2 < d3, the
\* second of which has a relevance strictly between 0 and 1.
C9_Witness ==
    /\ response # Absent
    /\ call.frontend \in {"service", "app2"}
    /\ Val(response).error = Absent
    /\ Len(Val(response).sources) = 3
    /\ call.distances[1] = 0
    /\ call.distances[2] < call.distances[3]
    /\ LET r == Val(Val(response).sources[2].relevance)
       IN  0 < r.num /\ r.num < r.den

\* C10: in every response of the service the relevance of a source is not
\* greater than the relevance of the source before it.
C10_RelevanceNonIncreasing ==
    (response # Absent /\ call.frontend = "service" /\ Val(response).error = Absent)
    => LET src == Val(response).sources
       IN  \A n \in 1..(Len(src) - 1) :
              LET a == Val(src[n].relevance)
                  b == Val(src[n + 1].relevance)
              IN  b.num * a.den <= a.num * b.den

\* C10 witness: a service response with two sources of different relevance.
C10_Witness ==
    /\ response # Absent
    /\ call.frontend = "service"
    /\ Val(response).error = Absent
    /\ Len(Val(response).sources) >= 2
    /\ LET a == Val(Val(response).sources[1].relevance)
           b == Val(Val(response).sources[2].relevance)
       IN  b.num * a.den < a.num * b.den

----------------------------------------------------------------------------
(* Properties of the retrieval step of the query front ends                  *)

\* the number of chunks of the collection the service has loaded
SvcCount == Cardinality(DOMAIN DbChunks(Val(svc_collection)))

\* C11: a service request with n_results = k >= 1 against a loaded collection
\* of m chunks gets min(k, m) results from the store; when the generation
\* call succeeds the response has no error and exactly min(k, m) sources, and
\* the only error such a request can end with is the generation failure.
C11_ResultCountIsMin ==
    (response # Absent /\ call.frontend = "service" /\ call.queried
        /\ call.n_results >= 1)
    => LET n == IF call.n_results < SvcCount THEN call.n_results ELSE SvcCount
       IN  /\ Len(call.ids) = n
           /\ Len(call.distances) = n
           /\ call.llm = "ok" =>
                 /\ Val(response).error = Absent
                 /\ Len(Val(response).sources) = n
           /\ Val(response).error # Absent => call.llm = "failed"

\* C11 witness: n_results = 4 against a collection of 2 chunks answered with
\* 2 sources and no error.
C11_Witness ==
    /\ response # Absent
    /\ call.frontend = "service"
    /\ call.queried
    /\ call.n_results = 4
    /\ SvcCount = 2
    /\ Val(response).error = Absent
    /\ Len(Val(response).sources) = 2

\* the originating document of an entry of a response's source list
SourceDoc(frontend, src) == IF frontend = "cli" THEN src ELSE src.metadata.source

\* C12 (as claimed): in a successful response of the service or of the
\* RAGSystem no two entries of the source list have the same originating
\* document.
C12_SourcesDeduplicated ==
    (response # Absent /\ call.frontend \in {"service", "cli"}
        /\ Val(response).error = Absent)
    => LET src == Val(response).sources
       IN  \A a, b \in 1..Len(src) :
              a < b => SourceDoc(call.frontend, src[a]) # SourceDoc(call.frontend, src[b])

\* C13: for every request of the service or the query UI that reached the
\* store, entry n of the context block is labelled "Document n" and holds the
\* n-th document the store returned, and in a successful response source n is
\* the n-th result of the store.
C13_RetrievalOrderKept ==
    (response # Absent /\ call.frontend \in {"service", "app2"} /\ call.queried)
    => /\ Len(call.context) = Len(call.ids)
       /\ \A n \in 1..Len(call.ids) :
             /\ call.context[n].label = <<"Document ", Digits[n + 1]>>
             /\ call.context[n].doc = call.ids[n]
       /\ Val(response).error = Absent =>
             /\ Len(Val(response).sources) = Len(call.ids)
             /\ \A n \in 1..Len(call.ids) : Val(response).sources[n].id = call.ids[n]

\* C13 witness: the store returned chunk 1 of a document before its chunk 0,
\* at different distances, and the response lists them in that order.
C13_Witness ==
    /\ response # Absent
    /\ call.frontend = "service"
    /\ Val(response).error = Absent
    /\ Len(call.ids) >= 2
    /\ call.ids[1] = ChunkId(DocA.source, 0, 1)
    /\ call.ids[2] = ChunkId(DocA.source, 0, 0)
    /\ call.distances[1] < call.distances[2]
    /\ Val(response).sources[1].id = ChunkId(DocA.source, 0, 1)

\* C14: the step in which a front end answers a query, with or without an
\* error, leaves the stored collections (the databases under rag_databases/
\* and the RAGSystem's vector store), metadata.json and the loaded collection
\* and metadata of every front end as they were.
C14_QueryWritesNothing ==
    [][(response = Absent /\ response' # Absent)
         => /\ collection' = collection
            /\ metadata_json' = metadata_json
            /\ dir_exists' = dir_exists
            /\ rag_dir' = rag_dir
            /\ svc_collection' = svc_collection
            /\ svc_metadata' = svc_metadata
            /\ ui_collection' = ui_collection
            /\ index' = index]_vars

\* C14 witness: the service, with a collection and its metadata loaded, has
\* answered a query whose generation call failed.
C14_Witness ==
    /\ response = Present(ErrorResponse(GenerationError))
    /\ call.frontend = "service"
    /\ call.queried
    /\ svc_collection # Absent
    /\ svc_metadata # Absent
    /\ SvcCount > 0

----------------------------------------------------------------------------
(* app1.build_rag_database over sources whose basenames coincide or hold     *)
(* underscores and digits                                                    *)

IdSources ==
    { <<"x", <<"a">> >>, <<"y", <<"a">> >>,
      <<"y", <<"a", "_", "1">> >>, <<"y", <<"a", "_", "1", "_", "0">> >> }

IdDocs ==
    { d \in [source : IdSources, page : {0, 1}, page_content : {<<"t">>, <<"t", "t">>}] :
         d.page \in PagesOf(d.source) }

NextIds ==
    \/ BuildStart
    \/ \E doc \in IdDocs : NextDocument(doc)
    \/ AddChunk
    \/ AddChunkRaises
    \/ WriteMetadata

\* Builds of one output path from documents with colliding basenames.
SpecIds == Init /\ [][NextIds]_vars

\* the (document, chunk) positions, 1-based, of the documents enumerated so far
ChunkPositions ==
    { p \in (1..Len(documents)) \X (1..MaxChunks) :
         p[2] <= Len(split_text(documents[p[1]].page_content)) }

\* the id the build gives the chunk at a position
IdAt(p) == ChunkId(documents[p[1]].source, p[1] - 1, p[2] - 1)

\* C15: within one build no two distinct (document index, chunk index) pairs
\* get the same id, and a completed build has stored one id per non-blank
\* chunk.
C15_ChunkIdsUnique ==
    /\ \A p, q \in ChunkPositions : p # q => IdAt(p) # IdAt(q)
    /\ pc = "done" =>
          Cardinality(StoredIds) =
             Cardinality({ p \in ChunkPositions :
                             ~Blank(split_text(documents[p[1]].page_content)[p[2]]) })

\* C15 witness: a completed build of two two-chunk documents whose sources
\* lie in different directories and share the basename.
C15_Witness ==
    /\ pc = "done"
    /\ Len(documents) = 2
    /\ documents[1].source # documents[2].source
    /\ basename(documents[1].source) = basename(documents[2].source)
    /\ Cardinality(StoredIds) = 4

\* the positions of the chunks with non-whitespace characters
NonBlankPositions ==
    { p \in ChunkPositions : ~Blank(split_text(documents[p[1]].page_content)[p[2]]) }

\* C16: during and after a build every stored entry is a chunk with
\* non-whitespace characters, so a document of whitespace-only chunks has no
\* entry in the store; a completed build reports as chunk_count the number of
\* non-blank chunks, and counts zero chunks for a source of blank documents.
C16_BlankChunksNotStored ==
    /\ \A id \in StoredIds :
          LET e == Val(collection)[id]
          IN  /\ e.document_id + 1 \in 1..Len(documents)
              /\ <<e.document_id + 1, e.chunk_id + 1>> \in NonBlankPositions
    /\ pc = "done" =>
          /\ Val(metadata_json).chunk_count = Cardinality(NonBlankPositions)
          /\ \A s \in DOMAIN document_metadata :
                Val(metadata_json).documents[s].chunks =
                   Cardinality({ p \in NonBlankPositions : documents[p[1]].source = s })

\* C16 witness: a completed build of a document of two whitespace-only chunks
\* and a document with one non-blank chunk; the store holds one chunk.
C16_Witness ==
    /\ pc = "done"
    /\ Len(documents) = 2
    /\ documents[1].page_content = <<"w", "w">>
    /\ documents[2].page_content = <<"t">>
    /\ documents[1].source # documents[2].source
    /\ Val(metadata_json).chunk_count = 1
    /\ Val(metadata_json).documents[documents[1].source].chunks = 0

----------------------------------------------------------------------------
(* app1.py lines 190-193, 216: RecursiveCharacterTextSplitter(chunk_size =   *)
(* 1000, chunk_overlap = 200).split_text, one step per loop iteration.  A    *)
(* text is a sequence of characters "c" (not whitespace) and " "; a piece or *)
(* chunk of the text is the range [from, to] of its character positions.     *)

\* app1.py line 191
ChunkSize == 1000
\* app1.py line 192
ChunkOverlap == 200

\* the default separators of the splitter; the texts hold no newline
Separators == << "\n\n", "\n", " ", "" >>

RangeOf(a, b) == [from |-> a, to |-> b]
RLen(r) == r.to - r.from + 1
ChunkText(text, r) == SubSeq(text, r.from, r.to)

\* re.search(separator, text) for the part lo..hi of the text
Occurs(sep, text, lo, hi) == sep = " " /\ \E n \in lo..hi : text[n] = " "

\* the index of the first separator that is "" or occurs in the part
SeparatorIndex(seps, text, lo, hi) ==
    CHOOSE n \in 1..Len(seps) :
       /\ seps[n] = "" \/ Occurs(seps[n], text, lo, hi)
       /\ \A m \in 1..(n - 1) : ~(seps[m] = "" \/ Occurs(seps[m], text, lo, hi))

\* the n-th smallest element of a set of numbers
Nth(S, n) == CHOOSE x \in S : Cardinality({ y \in S : y < x }) = n - 1

\* _split_text_with_regex(text, separator, keep_separator = True): the pieces,
\* each but the first beginning with the separator; list(text) for ""; empty
\* pieces are dropped
SplitWithRegex(text, lo, hi, sep) ==
    IF sep = ""
    THEN [n \in 1..(hi - lo + 1) |-> RangeOf(lo + n - 1, lo + n - 1)]
    ELSE LET starts == {lo} \cup { n \in lo..hi : text[n] = " " }
         IN  [n \in 1..Cardinality(starts) |->
                 RangeOf(Nth(starts, n),
                         IF n = Cardinality(starts) THEN hi ELSE Nth(starts, n + 1) - 1)]

\* _join_docs with separator "" and strip_whitespace: the adjacent pieces
\* a..b joined and stripped; Absent for None
JoinDocs(text, pieces, a, b) ==
    LET lo == pieces[a].from
        hi == pieces[b].to
        inked == { n \in lo..hi : text[n] # " " }
    IN  IF inked = {} THEN Absent
        ELSE Present(RangeOf(CHOOSE x \in inked : \A y \in inked : x <= y,
                             CHOOSE x \in inked : \A y \in inked : y <= x))

\* docs.append(doc) unless doc is None
AppendDoc(chunks, doc) == IF doc = Absent THEN chunks ELSE Append(chunks, Val(doc))

allButSplitter ==
    <<diskVars, buildVars, clockVars, mainVars, queryVars, loadVars, svcVars, index, procVars>>

\* the texts split for the documents the running build has enumerated
LogBase == IF documents = <<>> THEN <<>> ELSE splitter.log

\* split_text(text) is called for the next document of the build: the
\* separator is chosen and the text split by it
SplitStart(text) ==
    /\ pc = "doc"
    /\ splitter.pc \in {"idle", "done"}
    /\ Len(documents) < 2
    /\ Len(LogBase) = Len(documents)
    /\ LET n == SeparatorIndex(Separators, text, 1, Len(text))
       IN  splitter' = [SplitterIdle EXCEPT
                          !.pc = "scan",
                          !.text = text,
                          !.seps_left = IF Separators[n] = "" THEN <<>>
                                        ELSE SubSeq(Separators, n + 1, Len(Separators)),
                          !.splits = SplitWithRegex(text, 1, Len(text), Separators[n]),
                          !.k = 1,
                          !.log = LogBase]
    /\ UNCHANGED allButSplitter

\* _merge_splits(pieces, "") is entered; after says where its caller goes on
StartMerge(sp, pieces, after) ==
    [sp EXCEPT !.pc = "merge", !.m_splits = pieces, !.m_k = 1, !.m_a = 1, !.m_b = 0,
               !.m_total = 0, !.m_after = after]

\* split_text returns final_chunks
Finish(sp) ==
    [sp EXCEPT !.pc = "done",
               !.log = Append(sp.log, [text |-> sp.text, chunks |-> sp.chunks])]

\* one iteration of `for s in splits` of _split_text, or the statements after
\* the loop
SplitScan ==
    /\ splitter.pc = "scan"
    /\ LET sp == splitter
       IN  splitter' =
             IF sp.k > Len(sp.splits)
             THEN (IF sp.good # <<>>
                   THEN StartMerge([sp EXCEPT !.good = <<>>], sp.good, "end")
                   ELSE Finish(sp))
             ELSE LET piece == sp.splits[sp.k]
                  IN  IF RLen(piece) < ChunkSize
                      THEN [sp EXCEPT !.good = Append(@, piece), !.k = @ + 1]
                      ELSE IF sp.good # <<>>
                      THEN StartMerge([sp EXCEPT !.good = <<>>], sp.good, "scan")
                      ELSE IF sp.seps_left = <<>>
                      THEN [sp EXCEPT !.chunks = Append(@, piece), !.k = @ + 1]
                      ELSE \* the recursive call: every piece it splits the part
                           \* into by "" is one character, hence a good split
                           LET n == SeparatorIndex(sp.seps_left, sp.text, piece.from, piece.to)
                           IN  StartMerge([sp EXCEPT !.k = @ + 1],
                                          SplitWithRegex(sp.text, piece.from, piece.to,
                                                         sp.seps_left[n]),
                                          "scan")
    /\ UNCHANGED allButSplitter

\* one iteration of `for d in splits` of _merge_splits up to the while loop,
\* or the statements after the loop
SplitMerge ==
    /\ splitter.pc = "merge"
    /\ LET sp == splitter
       IN  splitter' =
             IF sp.m_k > Len(sp.m_splits)
             THEN LET out == [sp EXCEPT !.chunks =
                                 IF sp.m_a <= sp.m_b
                                 THEN AppendDoc(@, JoinDocs(sp.text, sp.m_splits, sp.m_a, sp.m_b))
                                 ELSE @]
                  IN  IF sp.m_after = "end" THEN Finish(out) ELSE [out EXCEPT !.pc = "scan"]
             ELSE LET d == sp.m_splits[sp.m_k]
                  IN  IF sp.m_total + RLen(d) > ChunkSize /\ sp.m_a <= sp.m_b
                      THEN [sp EXCEPT !.chunks =
                                AppendDoc(@, JoinDocs(sp.text, sp.m_splits, sp.m_a, sp.m_b)),
                              !.pc = "pop"]
                      ELSE [sp EXCEPT !.m_b = sp.m_k, !.m_total = @ + RLen(d), !.m_k = @ + 1]
    /\ UNCHANGED allButSplitter

\* SplitPop emptying current_doc: no piece is kept as overlap
SplitPop_NoOverlap ==
    /\ splitter.pc = "pop"
    /\ LET sp == splitter
           d  == sp.m_splits[sp.m_k]
       IN  splitter' =
             IF sp.m_total > 0
             THEN [sp EXCEPT !.m_total = @ - RLen(sp.m_splits[sp.m_a]), !.m_a = @ + 1]
             ELSE [sp EXCEPT !.m_b = sp.m_k, !.m_total = @ + RLen(d), !.m_k = @ + 1,
                             !.pc = "merge"]
    /\ UNCHANGED allButSplitter

\* one test of the while loop of _merge_splits: drop the first piece of
\* current_doc, or leave the loop and append d
SplitPop ==
    /\ splitter.pc = "pop"
    /\ LET sp == splitter
           d  == sp.m_splits[sp.m_k]
       IN  splitter' =
             IF \/ sp.m_total > ChunkOverlap
                \/ (sp.m_total + RLen(d) > ChunkSize /\ sp.m_total > 0)
             THEN [sp EXCEPT !.m_total = @ - RLen(sp.m_splits[sp.m_a]), !.m_a = @ + 1]
             ELSE [sp EXCEPT !.m_b = sp.m_k, !.m_total = @ + RLen(d), !.m_k = @ + 1,
                             !.pc = "merge"]
    /\ UNCHANGED allButSplitter

\* "t" for a chunk with non-whitespace characters, "w" for a blank one
KindOf(text, r) == IF IsBlankText(ChunkText(text, r)) THEN "w" ELSE "t"

\* app1.py lines 199-216 for a document whose text split_text has just
\* returned the chunks of
NextSplitDocument(source) ==
    /\ splitter.pc = "done"
    /\ Len(splitter.log) = Len(documents) + 1
    /\ LET entry == splitter.log[Len(splitter.log)]
       IN  \E p \in PagesOf(source) :
              NextDocument([source |-> source, page |-> p,
                            page_content |-> [n \in 1..Len(entry.chunks) |->
                                                 KindOf(entry.text, entry.chunks[n])]])

(* The texts of the two-document scenario: 1500 and 300 characters without a *)
(* separator, and 1500 characters with two blanks or with one blank after a  *)
(* word longer than the chunk size.                                          *)
ScenarioTexts ==
    { Repeat("c", 1500),
      Repeat("c", 300),
      Repeat("c", 400) \o <<" ">> \o Repeat("c", 699) \o <<" ">> \o Repeat("c", 399),
      Repeat("c", 1200) \o <<" ">> \o Repeat("c", 299) }

NextSplit ==
    \/ BuildStart
    \/ \E text \in ScenarioTexts : SplitStart(text)
    \/ SplitScan
    \/ SplitMerge
    \/ SplitPop
    \/ \E source \in Sources : NextSplitDocument(source)
    \/ AddChunk
    \/ AddChunkRaises
    \/ (splitter.pc \in {"idle", "done"} /\ Len(LogBase) = Len(documents) /\ WriteMetadata)

\* Builds of at most two documents whose texts the splitter splits.
SpecSplit == Init /\ [][NextSplit]_vars

\* the sizes of the chunks split_text returned for a text
SizesOf(entry) == [n \in 1..Len(entry.chunks) |-> RLen(entry.chunks[n])]

\* the text holds none of the splitter's separators
SeparatorFree(text) == \A n \in 1..Len(text) : text[n] # " "

\* a completed build of a 1500-character document and a 300-character
\* document from different sources
ScenarioBuilt ==
    /\ pc = "done"
    /\ Len(documents) = 2
    /\ Len(splitter.log) = 2
    /\ Len(splitter.log[1].text) = 1500
    /\ Len(splitter.log[2].text) = 300
    /\ documents[1].source # documents[2].source

\* chunk_count = 3 and the documents map has entries with chunks = 2 and
\* chunks = 1, the first document's chunks having 1000 and 700 characters
ScenarioResult ==
    /\ SizesOf(splitter.log[1]) = <<1000, 700>>
    /\ Len(splitter.log[2].chunks) = 1
    /\ Val(metadata_json).chunk_count = 3
    /\ ret = Present(3)
    /\ DOMAIN Val(metadata_json).documents = {documents[1].source, documents[2].source}
    /\ Val(metadata_json).documents[documents[1].source].chunks = 2
    /\ Val(metadata_json).documents[documents[2].source].chunks = 1

\* C17 (as claimed): a build of a 1500-character document and a
\* 300-character document yields chunks of 1000 and 700 characters for the
\* first and one chunk for the second, chunk_count = 3 and a documents map
\* with chunks = 2 and chunks = 1.
C17_ScenarioAnyText == ScenarioBuilt => ScenarioResult

\* C17 (amended): the same for documents whose texts hold no separator; the
\* second chunk of the first document then starts with the last 200
\* characters of its first chunk.
C17_ScenarioSeparatorFree ==
    (ScenarioBuilt /\ SeparatorFree(splitter.log[1].text)
        /\ SeparatorFree(splitter.log[2].text))
    => /\ ScenarioResult
       /\ splitter.log[1].chunks = << RangeOf(1, 1000), RangeOf(801, 1500) >>
       /\ splitter.log[2].chunks = << RangeOf(1, 300) >>

\* C17 witness: the scenario built from texts without a separator.
C17_Witness ==
    /\ ScenarioBuilt
    /\ SeparatorFree(splitter.log[1].text)
    /\ SeparatorFree(splitter.log[2].text)
    /\ Val(metadata_json).chunk_count = 3

----------------------------------------------------------------------------
\* C18 (as claimed, for main.process_documents): of two stored chunks of one
\* file with consecutive chunk indexes, the later one begins with the last
\* `overlap` characters of the earlier one.
C18_ChunksOverlap ==
    (main_pc = "idle" /\ collection # Absent)
    => \A a, b \in StoredIds :
          LET ea == Val(collection)[a]
              eb == Val(collection)[b]
          IN  (ea.source = eb.source /\ eb.chunk = ea.chunk + 1)
              => /\ Len(eb.document) >= ChunkOverlap
                 /\ Len(ea.document) >= ChunkOverlap
                 /\ SubSeq(eb.document, 1, ChunkOverlap)
                       = SubSeq(ea.document, Len(ea.document) - ChunkOverlap + 1,
                                Len(ea.document))

----------------------------------------------------------------------------
\* C19 (as claimed, for RAGSystem.index_documents): every build that returns
\* (the store path was missing or the rebuild was forced, and the chunk count
\* came back) leaves a metadata.json beside the collection it created.
C19_BuildLeavesMetadata ==
    [][ \A docs \in SampleDocLists, force \in BOOLEAN :
           ( /\ IndexDocuments(docs, force, "ok")
             /\ (~dir_exists \/ force) )
           => (collection' # Absent /\ ret' # Absent /\ metadata_json' # Absent) ]_vars

----------------------------------------------------------------------------
\* C20 (as claimed, for setup_rag): whenever the collection does not exist,
\* whatever the wording of the exception get_collection raises for it,
\* setup_rag creates a new empty collection and goes on.
C20_AbsentCollectionCreated ==
    [][ \A msg \in NotFoundWordings :
           (collection = Absent /\ SetupRag(msg))
           => (collection' = Present(EmptyMap) /\ main_pc' = "processing") ]_vars

----------------------------------------------------------------------------
\* C21 (as claimed): index_documents called with force_reindex = False while
\* no collection exists at the vector store path, whether or not the path
\* exists as a directory, builds: the store then holds the nodes of the given
\* documents and the returned count is their number.
C21_NoCollectionBuilds ==
    [][ \A docs \in SampleDocLists :
           (collection = Absent /\ IndexDocuments(docs, FALSE, "ok"))
           => /\ collection' = Present(NodesOf(EmptyMap, docs, 1, 1))
              /\ ret' = Present(Cardinality(DOMAIN NodesOf(EmptyMap, docs, 1, 1))) ]_vars

----------------------------------------------------------------------------
\* C22 (as claimed): no exception leaves the request handler of /query, and a
\* response of the service that reports a failure has error set, an empty
\* answer and no sources.
C22_AlwaysAResponse ==
    /\ escaped = Absent
    /\ (response # Absent /\ call.frontend = "service" /\ Val(response).error # Absent)
       => (Val(response).answer = "" /\ Val(response).sources = <<>>)

----------------------------------------------------------------------------
\* C23 (as claimed): once _load_rag_database has returned, the metadata and
\* the collection of the service are both unset, or both come from the same
\* database directory, the first one of rag_databases/ that loads.
C23_MetadataAndCollectionTogether ==
    svc_pc = "loaded"
    => \/ svc_metadata = Absent /\ svc_collection = Absent
       \/ /\ svc_metadata # Absent
          /\ svc_collection = svc_metadata
          /\ Val(rag_dir)[Val(svc_collection)].kind = "good"
          /\ \A k \in 1..(Val(svc_collection) - 1) : Val(rag_dir)[k].kind # "good"

----------------------------------------------------------------------------
\* C24 (as claimed): whenever _handle_request runs for a request, the
\* constructor of the service has assigned its attributes and the database
\* load has finished.
C24_HandlerSeesInitialisedService ==
    [][ (\E k \in 0..MaxK, llm \in {"ok", "failed"} : HandleRequest(k, llm))
        => svc_pc = "loaded" ]_vars

----------------------------------------------------------------------------
(* rag_cli.py: main                                                          *)

\* similarity_top_k of RAGSystem.query when the caller passes none
DefaultTopK == 3

\* lines 92-105: the arguments are parsed and a RAGSystem is constructed, whose
\* index is None (rag_system.py line 242); the vector store stays as the
\* previous runs left it
CliStart(query, force_reindex, interactive) ==
    /\ cli.pc \in {"none", "exit"}
    /\ cli' = [pc |-> "index", query |-> query, force_reindex |-> force_reindex,
               interactive |-> interactive]
    /\ index' = Absent
    /\ response' = Absent
    /\ call' = NoCall
    /\ UNCHANGED <<diskVars, buildVars, clockVars, mainVars, loadVars, svcVars, splitter,
                   escaped, auth, server, session>>

\* lines 107-121: docs is what load_documents returns, embed the outcome of
\* from_documents (an exception of index_documents ends the run)
CliIndex(docs, embed) ==
    /\ cli.pc = "index"
    /\ IF cli.query /\ ~cli.force_reindex
       THEN /\ cli' = [cli EXCEPT !.pc = "answer"]
            /\ UNCHANGED <<diskVars, buildVars, index>>
       ELSE IF docs = <<>>
       THEN /\ cli' = [cli EXCEPT !.pc = "exit"]
            /\ UNCHANGED <<diskVars, buildVars, index>>
       ELSE /\ IndexDocumentsCall(docs, cli.force_reindex, embed)
            /\ cli' = [cli EXCEPT !.pc = IF embed = "ok" THEN "answer" ELSE "exit"]
    /\ UNCHANGED <<clockVars, mainVars, queryVars, loadVars, svcVars, splitter, escaped, auth, server, session>>

\* lines 123-129 and 73-88: the query of --query with --top-k = k, or one
\* question of the interactive loop, or its end
CliAnswer(k, llm, quit) ==
    /\ cli.pc = "answer"
    /\ IF cli.query
       THEN /\ RagSystemQueryCall(k, llm)
            /\ cli' = [cli EXCEPT !.pc = "exit"]
       ELSE IF cli.interactive /\ ~quit
       THEN /\ RagSystemQueryCall(DefaultTopK, llm)
            /\ cli' = cli
       ELSE /\ cli' = [cli EXCEPT !.pc = "exit"]
            /\ UNCHANGED <<svcVars, index, diskVars, buildVars, clockVars, mainVars, loadVars,
                           splitter, queryVars>>
    /\ UNCHANGED <<escaped, auth, server, session>>

NextCli ==
    \/ \E query, force_reindex, interactive \in BOOLEAN :
          CliStart(query, force_reindex, interactive)
    \/ \E docs \in SampleDocLists, embed \in {"ok", "raises"} : CliIndex(docs, embed)
    \/ \E k \in 1..MaxK, llm \in {"ok", "failed"}, quit \in BOOLEAN : CliAnswer(k, llm, quit)
    \/ Deliver

\* Runs of the command-line interface, one after the other, over one vector
\* store path.
SpecCli == InitServing /\ [][NextCli]_vars

\* C25 (as claimed): no query of a run of the CLI fails for want of an index:
\* RAGSystem.query is called only when index_documents has built or loaded one
\* in that run.
C25_QueryHasIndex ==
    (cli.pc # "none" /\ response # Absent /\ call.frontend = "cli")
       => Val(response).error # Present(NoIndexError)

----------------------------------------------------------------------------
\* C26: from the removal of the old directory until build_rag_database has
\* written metadata.json as its last step, also when the build has aborted,
\* the output path holds no metadata.json; it holds one when the build is done.
C26_NoMetadataUntilBuilt ==
    /\ pc \in {"doc", "chunk", "aborted"} => metadata_json = Absent
    /\ pc = "done" => metadata_json # Absent

\* a rebuild over a finished database has aborted after inserting a chunk
C26_Witness ==
    /\ pc = "aborted"
    /\ prev_created_at # Absent
    /\ StoredIds # {}
    /\ metadata_json = Absent

RECURSIVE SumChunks(_, _)
\* the sum of the chunks counters of the sources in S
SumChunks(dm, S) ==
    IF S = {} THEN 0
    ELSE LET s == CHOOSE x \in S : TRUE
         IN  dm[s].chunks + SumChunks(dm, S \ {s})

\* the counters of a documents map agree with a total and with the store
CountersAgree(dm, total) ==
    /\ SumChunks(dm, DOMAIN dm) = total
    /\ \A d \in 1..Len(documents) : documents[d].source \in DOMAIN dm
    /\ \A s \in DOMAIN dm :
          dm[s].chunks = Cardinality({ id \in StoredIds : Val(collection)[id].source = s })

\* C27: at every point of a build, and in the metadata.json written at its
\* end, the chunks counters of the documents map add up to the chunk count,
\* every source enumerated so far has an entry, and the counter of a source
\* is the number of its chunks that were inserted (0 if none was).
C27_SourceCountersSumToTotal ==
    /\ pc # "idle" => CountersAgree(document_metadata, total_chunks)
    /\ metadata_json # Absent
          => CountersAgree(Val(metadata_json).documents, Val(metadata_json).chunk_count)

\* a finished build of two sources, one of which had no chunk inserted
C27_Witness ==
    /\ metadata_json # Absent
    /\ \E s, t \in DOMAIN Val(metadata_json).documents :
          /\ Val(metadata_json).documents[s].chunks = 0
          /\ Val(metadata_json).documents[t].chunks >= 1
    /\ Val(metadata_json).chunk_count >= 1

----------------------------------------------------------------------------
(* rag_builder.py: RAGBuilder.authenticate and the callback handler.  Time  *)
(* is counted in sleeps of the wait loop (line 166).                         *)

\* the authorization codes a callback can carry
AuthCodes == {"code1", "code2"}

\* lines 113-144.  stored is the outcome of lines 114-130: the saved token is
\* valid (or was refreshed), or there is none that can be used.  Otherwise the
\* fields are reset and the callback server is started.
AuthStart(stored, timeout) ==
    /\ auth.pc \in {"idle", "done"}
    /\ auth' = IF stored = "valid"
               THEN [auth EXCEPT !.pc = "done", !.result = Present(TRUE), !.httpd = "none",
                                 !.timeout = timeout]
               ELSE [pc |-> "wait", timeout |-> timeout, auth_code |-> Absent,
                     server_closed |-> FALSE, elapsed |-> 0, httpd |-> "serving",
                     result |-> Absent]
    /\ UNCHANGED <<diskVars, buildVars, clockVars, mainVars, queryVars, loadVars, svcVars, index,
                   splitter, escaped, cli, server, session>>

\* lines 191-210: AuthHandler.do_GET on the server thread.  code is Absent for
\* a request without a code parameter; write is the outcome of sending the
\* page (lines 197-203), which raises when the browser has dropped the
\* connection
AuthCallback(code, write) ==
    /\ auth.httpd = "serving"
    /\ auth' = IF code = Absent THEN auth
               ELSE IF write = "ok"
               THEN [auth EXCEPT !.auth_code = code, !.server_closed = TRUE]
               ELSE [auth EXCEPT !.auth_code = code]
    /\ UNCHANGED <<diskVars, buildVars, clockVars, mainVars, queryVars, loadVars, svcVars, index,
                   splitter, escaped, cli, server, session>>

\* lines 162-166: one test of the loop condition, and the sleep if it goes on
AuthWait ==
    /\ auth.pc = "wait"
    /\ auth' = IF auth.server_closed THEN [auth EXCEPT !.pc = "tokens"]
               ELSE IF auth.elapsed > auth.timeout THEN [auth EXCEPT !.pc = "tokens"]
               ELSE [auth EXCEPT !.elapsed = @ + 1]
    /\ UNCHANGED <<diskVars, buildVars, clockVars, mainVars, queryVars, loadVars, svcVars, index,
                   splitter, escaped, cli, server, session>>

\* lines 168-186: tokens is the outcome of _get_tokens and _validate_token;
\* the finally clause shuts the server down
AuthFinish(tokens) ==
    /\ auth.pc = "tokens"
    /\ auth' = [auth EXCEPT !.pc = "done",
                            !.result = Present(auth.auth_code # Absent /\ tokens = "valid"),
                            !.httpd = "closed"]
    /\ UNCHANGED <<diskVars, buildVars, clockVars, mainVars, queryVars, loadVars, svcVars, index,
                   splitter, escaped, cli, server, session>>

NextAuth ==
    \/ \E stored \in {"valid", "none"}, timeout \in 0..MaxWait : AuthStart(stored, timeout)
    \/ \E code \in {Absent} \cup { Present(c) : c \in AuthCodes }, write \in {"ok", "raises"} :
          AuthCallback(code, write)
    \/ AuthWait
    \/ \E tokens \in {"valid", "invalid", "raises"} : AuthFinish(tokens)

\* Calls of authenticate, one after the other, with the browser callbacks.
SpecAuth == Init /\ [][NextAuth]_vars

\* C28 (as claimed): while authenticate waits, a code recorded by the callback
\* handler ends the loop at its next test; a call that ends without a code
\* returns False; and after every call that started the callback server the
\* server is shut down.
C28_WaitEndsWithCodeOrTimeout ==
    /\ (auth.pc = "wait" /\ auth.auth_code # Absent) => auth.server_closed
    /\ (auth.pc = "done" /\ auth.httpd # "none" /\ auth.auth_code = Absent)
          => auth.result = Present(FALSE)
    /\ auth.pc = "done" => auth.httpd \in {"none", "closed"}

----------------------------------------------------------------------------
(* syft_rpc_client.py: the server thread of _run_server and close().         *)
(* handled counts the requests processed, late the calls of                  *)
(* process_pending_requests made after close(), stops the calls of           *)
(* box.stop(), logged holds the errors the thread has logged.                *)
(* process_pending_requests is taken to return or raise.                     *)

\* lines 96-102: box.start() returns, raises the tolerated RuntimeError
\* ("already scheduled"), or raises something else, which the except of line
\* 108 takes to the finally clause
BoxStart(outcome) ==
    /\ server.pc = "start"
    /\ server' = [server EXCEPT !.started = outcome,
                                !.logged = IF outcome = "raises" THEN @ \cup {"SERVER ERROR"}
                                           ELSE @,
                                !.pc = IF outcome = "raises" THEN "finally" ELSE "loop"]
    /\ UNCHANGED <<diskVars, buildVars, clockVars, mainVars, queryVars, loadVars, svcVars, index,
                   splitter, escaped, cli, auth, session>>

\* ServerLoopTest with the stop event never seen as set
ServerLoopTest_IgnoresStop ==
    /\ server.pc = "loop"
    /\ server' = [server EXCEPT !.pc = "process"]
    /\ UNCHANGED <<diskVars, buildVars, clockVars, mainVars, queryVars, loadVars, svcVars, index,
                   splitter, escaped, cli, auth, session>>

\* line 105: the test of the loop condition
ServerLoopTest ==
    /\ server.pc = "loop"
    /\ server' = [server EXCEPT !.pc = IF server.stop_event THEN "finally" ELSE "process"]
    /\ UNCHANGED <<diskVars, buildVars, clockVars, mainVars, queryVars, loadVars, svcVars, index,
                   splitter, escaped, cli, auth, session>>

\* lines 106-109: process_pending_requests handles n pending requests and
\* returns, followed by the sleep, or raises
ProcessPending(n, outcome) ==
    /\ server.pc = "process"
    /\ server.handled + n <= MaxHandled
    /\ server' = [server EXCEPT !.handled = @ + n,
                                !.late = IF server.closed THEN @ + 1 ELSE @,
                                !.logged = IF outcome = "raises" THEN @ \cup {"SERVER ERROR"}
                                           ELSE @,
                                !.pc = IF outcome = "raises" THEN "finally" ELSE "loop"]
    /\ UNCHANGED <<diskVars, buildVars, clockVars, mainVars, queryVars, loadVars, svcVars, index,
                   splitter, escaped, cli, auth, session>>

\* lines 110-114: box.stop() is called; an exception it raises is logged
ServerFinally(outcome) ==
    /\ server.pc = "finally"
    /\ server' = [server EXCEPT !.stops = @ + 1,
                                !.logged = IF outcome = "raises"
                                           THEN @ \cup {"Error stopping server"} ELSE @,
                                !.pc = "exited"]
    /\ UNCHANGED <<diskVars, buildVars, clockVars, mainVars, queryVars, loadVars, svcVars, index,
                   splitter, escaped, cli, auth, session>>

\* lines 207-212: close() sets the stop event and joins for at most 2 seconds
Close ==
    /\ ~server.closed
    /\ server' = [server EXCEPT !.stop_event = TRUE, !.closed = TRUE]
    /\ UNCHANGED <<diskVars, buildVars, clockVars, mainVars, queryVars, loadVars, svcVars, index,
                   splitter, escaped, cli, auth, session>>

\* the steps of the server thread
ServerThread ==
    \/ \E outcome \in {"ok", "already scheduled", "raises"} : BoxStart(outcome)
    \/ ServerLoopTest
    \/ \E n \in 0..1, outcome \in {"ok", "raises"} : ProcessPending(n, outcome)
    \/ \E outcome \in {"ok", "raises"} : ServerFinally(outcome)

NextServer ==
    \/ ServerThread
    \/ Close

\* The server thread beside the thread that calls close(); the server thread
\* keeps being scheduled while the process lives.
SpecServer == Init /\ [][NextServer]_vars /\ WF_vars(ServerThread)

\* C29: after close() the server thread eventually has left its loop and
\* called box.stop(); box.stop() is never called twice; once the thread has
\* left, no request is processed any more; and after close() at most the one
\* call of process_pending_requests whose loop test came before is made.
C29_CloseStopsServer ==
    /\ (server.closed ~> (server.pc = "exited" /\ server.stops = 1))
    /\ [](server.stops <= 1 /\ server.late <= 1)
    /\ [][server.pc \in {"finally", "exited"} => server'.handled = server.handled]_vars

\* close() was called on a server whose box.start() raised the tolerated error
\* and that had processed a request, after which the loop raised; the thread
\* has left and stopped the box
C29_Witness ==
    /\ server.closed
    /\ server.started = "already scheduled"
    /\ server.handled >= 1
    /\ "SERVER ERROR" \in server.logged
    /\ server.pc = "exited"
    /\ server.stops = 1

----------------------------------------------------------------------------
(* app1.py: the file selection UI and the Build handler                      *)

\* the supported files the browser lists; two of them have the same name
DriveFiles ==
    { [id |-> "id1", name |-> <<"a">>],
      [id |-> "id2", name |-> <<"b">>],
      [id |-> "id3", name |-> <<"a">>] }

\* the file ids of selected_files
SelectedIds(sel) == { sel[k].id : k \in 1..Len(sel) }

\* lines 348, 361-366: the "Select" button is shown for a file that is not
\* selected
Select(file) ==
    /\ file.id \notin SelectedIds(session.selected_files)
    /\ session' = [session EXCEPT !.selected_files = Append(@, file)]
    /\ UNCHANGED <<diskVars, buildVars, clockVars, mainVars, queryVars, loadVars, svcVars, index,
                   splitter, escaped, cli, auth, server>>

\* the selected files without those of the given id
Without(sel, id) ==
    LET keep == { k \in 1..Len(sel) : sel[k].id # id }
        nth(n) == CHOOSE k \in keep : Cardinality({ m \in keep : m < k }) = n - 1
    IN  [n \in 1..Cardinality(keep) |-> sel[nth(n)]]

\* the mapping without the key id
Delete(map, id) == [k \in DOMAIN map \ {id} |-> map[k]]

\* Deselect without the del of lines 357-358
Deselect_KeepsDownload(file) ==
    /\ file.id \in SelectedIds(session.selected_files)
    /\ session' = [session EXCEPT !.selected_files = Without(@, file.id)]
    /\ UNCHANGED <<diskVars, buildVars, clockVars, mainVars, queryVars, loadVars, svcVars, index,
                   splitter, escaped, cli, auth, server>>

\* lines 348, 354-359: the "Selected" button of a selected file
Deselect(file) ==
    /\ file.id \in SelectedIds(session.selected_files)
    /\ session' = [session EXCEPT !.selected_files = Without(@, file.id),
                                  !.downloaded_files = Delete(@, file.id)]
    /\ UNCHANGED <<diskVars, buildVars, clockVars, mainVars, queryVars, loadVars, svcVars, index,
                   splitter, escaped, cli, auth, server>>

\* lines 370-399: "Build RAG Database" is offered when something is selected.
\* failed are the ids for which download_file returns None; every other
\* selected file that is not downloaded yet is downloaded into the temp
\* directory, and the files of downloaded_files are loaded
Build(failed) ==
    /\ session.selected_files # <<>>
    /\ LET sel == session.selected_files
           new == { k \in 1..Len(sel) :
                      /\ sel[k].id \notin DOMAIN session.downloaded_files
                      /\ sel[k].id \notin failed }
           got == [id \in { sel[k].id : k \in new } |->
                      <<"tmp", (CHOOSE f \in DriveFiles : f.id = id).name>>]
           dl  == session.downloaded_files @@ got
       IN  session' = [session EXCEPT
                          !.downloaded_files = dl,
                          !.build = Present([selected |-> SelectedIds(sel),
                                             loaded |-> DOMAIN dl])]
    /\ UNCHANGED <<diskVars, buildVars, clockVars, mainVars, queryVars, loadVars, svcVars, index,
                   splitter, escaped, cli, auth, server>>

NextSession ==
    \/ \E file \in DriveFiles : Select(file)
    \/ \E file \in DriveFiles : Deselect(file)
    \/ \E failed \in SUBSET { f.id : f \in DriveFiles } : Build(failed)

\* The builder UI: selecting, deselecting and building.
SpecSession == Init /\ [][NextSession]_vars

====
